---- MODULE Spec2Model ----
(***************************************************************************)
(* Model of plugins/ruby-on-rails/scripts/validate_skills.py: the skill    *)
(* linter (parse_frontmatter, iter_relative_links, main).                  *)
(*                                                                         *)
(* A Python str is a sequence of one-character strings; a path is a        *)
(* sequence of path segments, each segment a str.                          *)
(***************************************************************************)
EXTENDS Integers, Sequences, FiniteSets, TLC

VARIABLES
    fs,          \* the file system main() runs against (never written by it)
    pc,          \* position of main(): "start", "loop", "parse", "name", "links", "report",
                 \* "done" (it has returned), "raised" (an exception has left it)
    todo,        \* the folders the for-loop of line 52 has still to visit, sorted
    visited,     \* the folders the for-loop has taken so far, in order
    skill_dir,   \* the loop variable: name of the folder in hand (<<>> outside the loop)
    text,        \* the document text read at line 57
    meta,        \* the result of parse_frontmatter(text), line 58
    links,       \* what the generator iter_relative_links(text) has still to yield
    errors,      \* the list `errors`
    seen_names,  \* the dict `seen_names`: name -> str(skill_md)
    rc,          \* the return value of main() (-1 until it returns)
    out,         \* the lines printed
    pf_text, pf_pc, pf_res,      \* one call of parse_frontmatter
    il_text, il_pc, il_res       \* one call of iter_relative_links

vars == <<fs, pc, todo, visited, skill_dir, text, meta, links, errors, seen_names,
          rc, out, pf_text, pf_pc, pf_res, il_text, il_pc, il_res>>

mainVars == <<fs, pc, todo, visited, skill_dir, text, meta, links, errors, seen_names, rc, out>>
pfVars == <<pf_text, pf_pc, pf_res>>
ilVars == <<il_text, il_pc, il_res>>

----------------------------------------------------------------------------
(* Bounds of the model *)

\* the most folders under skills/
MaxFolders == 2
\* the most lines of a document given to parse_frontmatter alone
MaxDocLines == 3
\* the most tokens of a raw link target given to iter_relative_links alone
MaxTokens == 2

----------------------------------------------------------------------------
(* str primitives *)

\* characters str.strip(), str.lstrip() and str.split() treat as whitespace
Whitespace == {" ", "\t", "\n", "\r"}

\* characters str.splitlines() breaks lines at
LineBreaks == {"\n", "\r"}

RECURSIVE lstrip(_)
lstrip(s) ==
    IF s # <<>> /\ Head(s) \in Whitespace THEN lstrip(Tail(s)) ELSE s

RECURSIVE rstrip(_)
rstrip(s) ==
    IF s # <<>> /\ s[Len(s)] \in Whitespace THEN rstrip(SubSeq(s, 1, Len(s) - 1)) ELSE s

strip(s) == rstrip(lstrip(s))

\* str.strip(chars): every leading and trailing character of the set goes
RECURSIVE lstrip_chars(_, _)
lstrip_chars(s, chars) ==
    IF s # <<>> /\ Head(s) \in chars THEN lstrip_chars(Tail(s), chars) ELSE s

RECURSIVE rstrip_chars(_, _)
rstrip_chars(s, chars) ==
    IF s # <<>> /\ s[Len(s)] \in chars
    THEN rstrip_chars(SubSeq(s, 1, Len(s) - 1), chars)
    ELSE s

strip_chars(s, chars) == rstrip_chars(lstrip_chars(s, chars), chars)

startswith(s, p) == Len(s) >= Len(p) /\ SubSeq(s, 1, Len(p)) = p

\* index of the first character of s that is in chars, Len(s) + 1 if none
RECURSIVE find_first(_, _, _)
find_first(s, chars, i) ==
    IF i > Len(s) THEN Len(s) + 1
    ELSE IF s[i] \in chars THEN i
    ELSE find_first(s, chars, i + 1)

\* str.splitlines(): "\r\n" is one break, and a final break opens no empty line
RECURSIVE splitlines(_)
splitlines(s) ==
    IF s = <<>> THEN <<>>
    ELSE LET b == find_first(s, LineBreaks, 1)
             skip == IF b < Len(s) /\ s[b] = "\r" /\ s[b + 1] = "\n" THEN b + 1 ELSE b
         IN  IF b > Len(s) THEN <<s>>
             ELSE <<SubSeq(s, 1, b - 1)>> \o splitlines(SubSeq(s, skip + 1, Len(s)))

\* "\n".join(lines)
RECURSIVE join_lines(_)
join_lines(ls) ==
    IF ls = <<>> THEN <<>>
    ELSE IF Len(ls) = 1 THEN ls[1]
    ELSE ls[1] \o <<"\n">> \o join_lines(Tail(ls))

----------------------------------------------------------------------------
(* parse_frontmatter *)

DELIM == <<"-", "-", "-">>
QUOTES == {"\"", "'"}

ERR_START == "missing frontmatter start"
ERR_END == "missing frontmatter end"

\* lines.index("---", 1): 1-based position of the first line equal to "---"
\* from the second line on, 0 for ValueError
RECURSIVE index_delim(_, _)
index_delim(lines, i) ==
    IF i > Len(lines) THEN 0
    ELSE IF lines[i] = DELIM THEN i
    ELSE index_delim(lines, i + 1)

\* data[key] = value
dict_set(data, key, value) ==
    [k \in (DOMAIN data) \cup {key} |-> IF k = key THEN value ELSE data[k]]

EmptyDict == [k \in {} |-> <<>>]

\* line 27: the value right of the first ":"
parse_value(value) == strip_chars(strip(value), QUOTES)

\* lines 21-27: the loop over the lines of the block
RECURSIVE parse_lines(_, _)
parse_lines(front, data) ==
    IF front = <<>> THEN data
    ELSE LET line == Head(front)
             c == find_first(line, {":"}, 1)
         IN  IF strip(line) = <<>> \/ startswith(lstrip(line), <<"#">>)
             THEN parse_lines(Tail(front), data)
             ELSE IF c > Len(line)
             THEN parse_lines(Tail(front), data)
             ELSE parse_lines(Tail(front),
                              dict_set(data,
                                       strip(SubSeq(line, 1, c - 1)),
                                       parse_value(SubSeq(line, c + 1, Len(line)))))

\* the pair (data, err): none says data is None, err = "" says err is None
parse_frontmatter(t) ==
    LET lines == splitlines(t)
        end == index_delim(lines, 2)
    IN  IF lines = <<>> \/ strip(lines[1]) # DELIM
        THEN [none |-> TRUE, data |-> EmptyDict, err |-> ERR_START]
        ELSE IF end = 0
        THEN [none |-> TRUE, data |-> EmptyDict, err |-> ERR_END]
        ELSE [none |-> FALSE,
              data |-> parse_lines(SubSeq(lines, 2, end - 1), EmptyDict),
              err |-> ""]

NoResult == [none |-> TRUE, data |-> EmptyDict, err |-> "not called"]

----------------------------------------------------------------------------
(* iter_relative_links *)

\* LINK_RE.findall(s) from position i on: the group of every match of
\* \[[^\]]+\]\(([^)]+)\), leftmost first, without overlap
RECURSIVE findall(_, _)
findall(s, i) ==
    IF i > Len(s) THEN <<>>
    ELSE IF s[i] # "[" THEN findall(s, i + 1)
    ELSE LET j == find_first(s, {"]"}, i + 1)
             k == find_first(s, {")"}, j + 2)
         IN  IF j > Len(s) \/ j = i + 1 THEN findall(s, i + 1)
             ELSE IF j + 1 > Len(s) \/ s[j + 1] # "(" THEN findall(s, i + 1)
             ELSE IF k > Len(s) \/ k = j + 2 THEN findall(s, i + 1)
             ELSE <<SubSeq(s, j + 2, k - 1)>> \o findall(s, k + 1)

\* the prefixes of line 34
EXCLUDED ==
    { <<"#">>,
      <<"h", "t", "t", "p", ":", "/", "/">>,
      <<"h", "t", "t", "p", "s", ":", "/", "/">>,
      <<"m", "a", "i", "l", "t", "o", ":">>,
      <<"t", "e", "l", ":">>,
      <<"/", "/">> }

\* target.split()[0], for a target that holds a character that is no whitespace
first_token(s) ==
    LET t == lstrip(s)
    IN  SubSeq(t, 1, find_first(t, Whitespace, 1) - 1)

\* target.split("#", 1)[0]
before_hash(s) == SubSeq(s, 1, find_first(s, {"#"}, 1) - 1)

\* link_target with the prefixes looked for before the raw match is trimmed
link_target_untrimmed(raw) ==
    LET target == strip(raw)
    IN  IF target = <<>> \/ \E p \in EXCLUDED : startswith(raw, p)
        THEN <<>>
        ELSE LET cut == before_hash(first_token(target))
             IN  IF cut = <<>> THEN <<>> ELSE <<cut>>

\* lines 33-40 for one raw match: <<target>> when it is yielded, <<>> when not
link_target(raw) ==
    LET target == strip(raw)
    IN  IF target = <<>> \/ \E p \in EXCLUDED : startswith(target, p)
        THEN <<>>
        ELSE LET cut == before_hash(first_token(target))
             IN  IF cut = <<>> THEN <<>> ELSE <<cut>>

RECURSIVE filter_links(_)
filter_links(raws) ==
    IF raws = <<>> THEN <<>>
    ELSE link_target(Head(raws)) \o filter_links(Tail(raws))

\* everything the generator yields, in order
iter_relative_links(t) == filter_links(findall(t, 1))

----------------------------------------------------------------------------
(* paths and the file system *)

\* path segments
SKILLS == <<"s", "k", "i", "l", "l", "s">>
SKILL_MD == <<"S", "K", "I", "L", "L", ".", "m", "d">>
R_MD == <<"r", ".", "m", "d">>
UP == <<".", ".">>
DOT == <<".">>

\* repo_root, line 44: an absolute path, already resolved
repo_root == << <<"r">> >>
\* line 45
skills_dir == repo_root \o <<SKILLS>>
\* a file of the repository outside skills/
OUTSIDE == repo_root \o << <<"o">> >>

\* the segments of a path string: split at "/", empty and "." segments dropped
RECURSIVE split_path(_)
split_path(s) ==
    IF s = <<>> THEN <<>>
    ELSE LET b == find_first(s, {"/"}, 1)
             seg == SubSeq(s, 1, b - 1)
             rest == IF b >= Len(s) THEN <<>> ELSE split_path(SubSeq(s, b + 1, Len(s)))
         IN  IF seg = <<>> \/ seg = DOT THEN rest ELSE <<seg>> \o rest

\* skill_dir / link: an absolute link replaces the folder
joinpath(base, link) ==
    IF link # <<>> /\ link[1] = "/" THEN split_path(link) ELSE base \o split_path(link)

\* the symbolic links of the file system: <<path, target>>, targets resolved
symlinks(f) ==
    IF f.rmd = "symlink"
    THEN { <<skills_dir \o <<d, R_MD>>, OUTSIDE>> : d \in f.dirs }
    ELSE {}

\* the paths that exist once symbolic links are followed
existing(f) ==
    {<<>>, repo_root, OUTSIDE}
    \cup (IF f.is_dir THEN {skills_dir} ELSE {})
    \cup { skills_dir \o <<d>> : d \in f.dirs }
    \cup { skills_dir \o <<d, SKILL_MD>> : d \in {e \in f.dirs : f.docs[e].exists} }
    \cup (IF f.rmd = "absent" THEN {} ELSE { skills_dir \o <<d, R_MD>> : d \in f.dirs })

\* Path.resolve(): ".." goes to the parent (the root is its own parent) and a
\* symbolic link is replaced by its target
RECURSIVE resolve_from(_, _, _)
resolve_from(f, cur, parts) ==
    IF parts = <<>> THEN cur
    ELSE LET seg == Head(parts)
             nxt == cur \o <<seg>>
             hit == { l \in symlinks(f) : l[1] = nxt }
         IN  IF seg = UP
             THEN resolve_from(f, IF cur = <<>> THEN <<>> ELSE SubSeq(cur, 1, Len(cur) - 1),
                               Tail(parts))
             ELSE IF hit # {}
             THEN resolve_from(f, (CHOOSE l \in hit : TRUE)[2], Tail(parts))
             ELSE resolve_from(f, nxt, Tail(parts))

resolve(f, path) == resolve_from(f, <<>>, path)

\* path.relative_to(root) raises no ValueError
is_relative_to(path, root) ==
    Len(path) >= Len(root) /\ SubSeq(path, 1, Len(root)) = root

\* Path.exists()
exists(f, path) == resolve(f, path) \in existing(f)

----------------------------------------------------------------------------
(* main: names, ordering, errors *)

\* the quantifier {1,64} of NAME_RE
MaxNameLen == 64

\* the class [a-z0-9-] of NAME_RE
NameChars ==
    {"a", "b", "c", "d", "e", "f", "g", "h", "i", "j", "k", "l", "m",
     "n", "o", "p", "q", "r", "s", "t", "u", "v", "w", "x", "y", "z",
     "0", "1", "2", "3", "4", "5", "6", "7", "8", "9", "-"}

\* name_re_match with the quantifier one short
name_re_match_short(name) ==
    LET core == IF name # <<>> /\ name[Len(name)] = "\n"
                THEN SubSeq(name, 1, Len(name) - 1)
                ELSE name
    IN  /\ Len(core) >= 1
        /\ Len(core) < MaxNameLen
        /\ \A i \in 1..Len(core) : core[i] \in NameChars

\* NAME_RE.match(name): "$" also matches before one final "\n"
name_re_match(name) ==
    LET core == IF name # <<>> /\ name[Len(name)] = "\n"
                THEN SubSeq(name, 1, Len(name) - 1)
                ELSE name
    IN  /\ Len(core) >= 1
        /\ Len(core) <= MaxNameLen
        /\ \A i \in 1..Len(core) : core[i] \in NameChars

\* the characters of folder names, in code point order
CodePoints ==
    <<"-", ".", "0", "1", "2", "3", "4", "5", "6", "7", "8", "9", "B",
      "a", "b", "c", "d", "e", "f", "g", "h", "i", "j", "k", "l", "m",
      "n", "o", "p", "q", "r", "s", "t", "u", "v", "w", "x", "y", "z">>

ord(c) == CHOOSE i \in 1..Len(CodePoints) : CodePoints[i] = c

\* a < b for str
RECURSIVE str_lt(_, _)
str_lt(a, b) ==
    IF b = <<>> THEN FALSE
    ELSE IF a = <<>> THEN TRUE
    ELSE IF Head(a) # Head(b) THEN ord(Head(a)) < ord(Head(b))
    ELSE str_lt(Tail(a), Tail(b))

\* sorted with the order reversed
RECURSIVE sorted_reversed(_)
sorted_reversed(S) ==
    IF S = {} THEN <<>>
    ELSE LET m == CHOOSE x \in S : \A y \in S \ {x} : str_lt(y, x)
         IN  <<m>> \o sorted_reversed(S \ {m})

\* sorted(...) of line 52: sibling paths order as their names do
RECURSIVE sorted(_)
sorted(S) ==
    IF S = {} THEN <<>>
    ELSE LET m == CHOOSE x \in S : \A y \in S \ {x} : str_lt(x, y)
         IN  <<m>> \o sorted(S \ {m})

\* skill_md, line 53
skill_md_of(d) == skills_dir \o <<d, SKILL_MD>>

\* the key "name"
NAME_KEY == <<"n", "a", "m", "e">>

E_ROOT == "skills/ directory not found"
E_NODOC == "missing SKILL.md"
E_NONAME == "missing name in frontmatter"
E_MISMATCH == "does not match folder"
E_PATTERN == "must match"
E_DUP == "duplicate name"
E_ESCAPE == "link escapes skill dir"
E_MISSING == "missing link target"

\* one formatted message: the document it is about, what it says, the name or
\* link it quotes, and the document a duplicate was first seen in
Err(doc, kind, arg, also) == [doc |-> doc, kind |-> kind, arg |-> arg, also |-> also]

\* (meta or {}).get("name", ""), line 63
get_name(m) == IF NAME_KEY \in DOMAIN m.data THEN m.data[NAME_KEY] ELSE <<>>

\* name_errors with the mismatch ending the name step
name_errors_terminal(d, name, seen) ==
    LET md == skill_md_of(d)
    IN  IF name = <<>>
        THEN <<Err(md, E_NONAME, <<>>, <<>>)>>
        ELSE IF name # d
        THEN <<Err(md, E_MISMATCH, name, <<>>)>>
        ELSE (IF ~name_re_match(name) THEN <<Err(md, E_PATTERN, name, <<>>)>> ELSE <<>>)
             \o (IF name \in DOMAIN seen THEN <<Err(md, E_DUP, name, seen[name])>> ELSE <<>>)

\* lines 64-72: what the name step appends
name_errors(d, name, seen) ==
    LET md == skill_md_of(d)
    IN  IF name = <<>>
        THEN <<Err(md, E_NONAME, <<>>, <<>>)>>
        ELSE (IF name # d THEN <<Err(md, E_MISMATCH, name, <<>>)>> ELSE <<>>)
             \o (IF ~name_re_match(name) THEN <<Err(md, E_PATTERN, name, <<>>)>> ELSE <<>>)
             \o (IF name \in DOMAIN seen THEN <<Err(md, E_DUP, name, seen[name])>> ELSE <<>>)

\* register with the assignment of line 74 outside the else
register_overwriting(d, name, seen) ==
    IF name = <<>>
    THEN seen
    ELSE [k \in (DOMAIN seen) \cup {name} |-> IF k = name THEN skill_md_of(d) ELSE seen[k]]

\* lines 71-74: seen_names after the name step
register(d, name, seen) ==
    IF name = <<>> \/ name \in DOMAIN seen
    THEN seen
    ELSE [k \in (DOMAIN seen) \cup {name} |-> IF k = name THEN skill_md_of(d) ELSE seen[k]]

\* link_errors without the continue of line 82
link_errors_both(f, d, link) ==
    LET root == skills_dir \o <<d>>
        target_path == resolve(f, joinpath(root, link))
    IN  (IF ~is_relative_to(target_path, resolve(f, root))
         THEN <<Err(skill_md_of(d), E_ESCAPE, link, <<>>)>>
         ELSE <<>>)
        \o (IF ~exists(f, target_path)
            THEN <<Err(skill_md_of(d), E_MISSING, link, <<>>)>>
            ELSE <<>>)

\* lines 77-84: what one link appends
link_errors(f, d, link) ==
    LET root == skills_dir \o <<d>>
        target_path == resolve(f, joinpath(root, link))
    IN  IF ~is_relative_to(target_path, resolve(f, root))
        THEN <<Err(skill_md_of(d), E_ESCAPE, link, <<>>)>>
        ELSE IF ~exists(f, target_path)
        THEN <<Err(skill_md_of(d), E_MISSING, link, <<>>)>>
        ELSE <<>>

----------------------------------------------------------------------------
(* the file systems main is run against *)

NAME_COLON == <<"n", "a", "m", "e", ":", " ">>
\* a name of exactly MaxNameLen characters, and one a character longer
Name64 == [i \in 1..MaxNameLen |-> "a"]
Name65 == [i \in 1..(MaxNameLen + 1) |-> "a"]

LinkR == <<"[", "t", "]", "(", "r", ".", "m", "d", ")">>
LinkM == <<"[", "t", "]", "(", "m", ".", "m", "d", ")">>

\* named a, one link to r.md
DocA == join_lines(<<DELIM, NAME_COLON \o <<"a">>, DELIM, LinkR, <<>>>>)
\* named b in quotes; the first link leaves the folder, the second is missing
DocB ==
    join_lines(<<DELIM, NAME_COLON \o <<"\"", "b", "\"">>, DELIM,
                 <<"[", "t", "]", "(", ".", ".", "/", "a", "/", "r", ".", "m", "d", ")", " ",
                   "[", "u", "]", "(", "m", ".", "m", "d", "#", "f", ")">>>>)
\* named B, which NAME_RE rejects
DocUpper == join_lines(<<DELIM, NAME_COLON \o <<"B">>, DELIM, <<>>>>)
\* a name of the greatest length NAME_RE accepts
Doc64 == join_lines(<<DELIM, NAME_COLON \o Name64, DELIM>>)
\* a name one character too long
Doc65 == join_lines(<<DELIM, NAME_COLON \o Name65, DELIM, LinkR>>)
\* no opening delimiter, though a block with a name and a dangling link follow
DocNoStart == join_lines(<<<<"x">>, DELIM, NAME_COLON \o <<"a">>, DELIM, LinkM>>)
\* no closing delimiter
DocNoEnd == join_lines(<<<<"-", "-", "-", " ">>, NAME_COLON \o <<"a">>, LinkM>>)
\* the name is commented out; the same missing link twice
DocNoName ==
    join_lines(<<DELIM, <<"#", " ">> \o NAME_COLON \o <<"a">>, DELIM, LinkM \o <<" ">> \o LinkM>>)
\* an empty file
DocEmpty == <<>>
\* named a; an excluded link, a link to the folder itself, an absolute link
DocQuiet ==
    join_lines(<<DELIM, NAME_COLON \o <<"a">>, DELIM,
                 <<"[", "t", "]", "(", "h", "t", "t", "p", "s", ":", "/", "/", "e", ")", " ",
                   "[", "t", "]", "(", ".", ")", " ",
                   "[", "t", "]", "(", "/", "r", ")">>>>)

MainDocs ==
    {DocA, DocB, DocUpper, Doc64, Doc65, DocNoStart, DocNoEnd, DocNoName, DocEmpty, DocQuiet}

\* what a folder holds as SKILL.md: a text, nothing, or something read_text
\* cannot read as UTF-8 text (a directory, bytes that are no UTF-8)
DocChoices ==
    {[exists |-> TRUE, readable |-> TRUE, text |-> t] : t \in MainDocs}
    \cup {[exists |-> FALSE, readable |-> FALSE, text |-> <<>>],
          [exists |-> TRUE, readable |-> FALSE, text |-> <<>>]}

FolderNames == {<<"a">>, Name64, <<"B">>}

\* r.md in every folder: absent, a regular file, or a symbolic link out of skills/
RmdChoices == {"absent", "file", "symlink"}

FileSystems ==
    {[is_dir |-> FALSE, dirs |-> {}, docs |-> <<>>, rmd |-> "absent"]}
    \cup UNION { {[is_dir |-> TRUE, dirs |-> D, docs |-> dc, rmd |-> r] :
                    dc \in [D -> DocChoices], r \in RmdChoices} :
                 D \in {X \in SUBSET FolderNames : Cardinality(X) <= MaxFolders} }

----------------------------------------------------------------------------
(* main *)

NoOutput == [header |-> "", lines |-> <<>>]

Init ==
    /\ fs \in FileSystems
    /\ pc = "start"
    /\ todo = <<>>
    /\ visited = <<>>
    /\ skill_dir = <<>>
    /\ text = <<>>
    /\ meta = NoResult
    /\ links = <<>>
    /\ errors = <<>>
    /\ seen_names = EmptyDict
    /\ rc = -1
    /\ out = NoOutput
    /\ pf_text = <<>> /\ pf_pc = "idle" /\ pf_res = NoResult
    /\ il_text = <<>> /\ il_pc = "idle" /\ il_res = <<>>

\* lines 49-50: skills/ is no directory
RootMissing ==
    /\ pc = "start"
    /\ ~fs.is_dir
    /\ errors' = Append(errors, Err(<<>>, E_ROOT, <<>>, <<>>))
    /\ pc' = "report"
    /\ UNCHANGED <<fs, todo, visited, skill_dir, text, meta, links, seen_names, rc, out>>
    /\ UNCHANGED <<pfVars, ilVars>>

\* line 52: the folders are listed and sorted
EnterLoop ==
    /\ pc = "start"
    /\ fs.is_dir
    /\ todo' = sorted(fs.dirs)
    /\ pc' = "loop"
    /\ UNCHANGED <<fs, visited, skill_dir, text, meta, links, errors, seen_names, rc, out>>
    /\ UNCHANGED <<pfVars, ilVars>>

\* lines 52-57: the next folder; its SKILL.md is missing, or read_text raises
\* and the exception leaves main, or the text is read
LocateDocument ==
    /\ pc = "loop"
    /\ todo # <<>>
    /\ LET d == Head(todo)
       IN  /\ skill_dir' = d
           /\ todo' = Tail(todo)
           /\ visited' = Append(visited, d)
           /\ IF ~exists(fs, skill_md_of(d))
              THEN /\ errors' = Append(errors, Err(skill_md_of(d), E_NODOC, <<>>, <<>>))
                   /\ pc' = "loop"
                   /\ UNCHANGED text
              ELSE IF ~fs.docs[d].readable
              THEN /\ pc' = "raised"
                   /\ UNCHANGED <<text, errors>>
              ELSE /\ text' = fs.docs[d].text
                   /\ pc' = "parse"
                   /\ UNCHANGED errors
    /\ UNCHANGED <<fs, meta, links, seen_names, rc, out>>
    /\ UNCHANGED <<pfVars, ilVars>>

\* ParseDocument without the continue of line 61
ParseDocument_on ==
    /\ pc = "parse"
    /\ LET r == parse_frontmatter(text)
       IN  /\ meta' = r
           /\ IF r.err # ""
              THEN errors' = Append(errors, Err(skill_md_of(skill_dir), r.err, <<>>, <<>>))
              ELSE UNCHANGED errors
    /\ pc' = "name"
    /\ UNCHANGED <<fs, todo, visited, skill_dir, text, links, seen_names, rc, out>>
    /\ UNCHANGED <<pfVars, ilVars>>

\* lines 58-61
ParseDocument ==
    /\ pc = "parse"
    /\ LET r == parse_frontmatter(text)
       IN  /\ meta' = r
           /\ IF r.err # ""
              THEN /\ errors' = Append(errors, Err(skill_md_of(skill_dir), r.err, <<>>, <<>>))
                   /\ pc' = "loop"
              ELSE /\ pc' = "name"
                   /\ UNCHANGED errors
    /\ UNCHANGED <<fs, todo, visited, skill_dir, text, links, seen_names, rc, out>>
    /\ UNCHANGED <<pfVars, ilVars>>

\* lines 63-76: the name step, then the generator of links is made
ValidateName ==
    /\ pc = "name"
    /\ LET name == get_name(meta)
       IN  /\ errors' = errors \o name_errors(skill_dir, name, seen_names)
           /\ seen_names' = register(skill_dir, name, seen_names)
    /\ links' = iter_relative_links(text)
    /\ pc' = "links"
    /\ UNCHANGED <<fs, todo, visited, skill_dir, text, meta, rc, out>>
    /\ UNCHANGED <<pfVars, ilVars>>

\* lines 76-84: one turn of the loop over the links
ValidateLink ==
    /\ pc = "links"
    /\ links # <<>>
    /\ errors' = errors \o link_errors(fs, skill_dir, Head(links))
    /\ links' = Tail(links)
    /\ UNCHANGED <<fs, pc, todo, visited, skill_dir, text, meta, seen_names, rc, out>>
    /\ UNCHANGED <<pfVars, ilVars>>

\* line 76: the generator is exhausted
LinksDone ==
    /\ pc = "links"
    /\ links = <<>>
    /\ pc' = "loop"
    /\ UNCHANGED <<fs, todo, visited, skill_dir, text, meta, links, errors, seen_names, rc, out>>
    /\ UNCHANGED <<pfVars, ilVars>>

\* line 52: no folder is left
LoopDone ==
    /\ pc = "loop"
    /\ todo = <<>>
    /\ pc' = "report"
    /\ UNCHANGED <<fs, todo, visited, skill_dir, text, meta, links, errors, seen_names, rc, out>>
    /\ UNCHANGED <<pfVars, ilVars>>

\* Report that takes a single error for none
Report_lenient ==
    /\ pc = "report"
    /\ IF Len(errors) > 1
       THEN /\ out' = [header |-> "Skill validation failed:", lines |-> errors]
            /\ rc' = 1
       ELSE /\ out' = [header |-> "Skill validation passed.", lines |-> <<>>]
            /\ rc' = 0
    /\ pc' = "done"
    /\ UNCHANGED <<fs, todo, visited, skill_dir, text, meta, links, errors, seen_names>>
    /\ UNCHANGED <<pfVars, ilVars>>

\* lines 86-93
Report ==
    /\ pc = "report"
    /\ IF errors # <<>>
       THEN /\ out' = [header |-> "Skill validation failed:", lines |-> errors]
            /\ rc' = 1
       ELSE /\ out' = [header |-> "Skill validation passed.", lines |-> <<>>]
            /\ rc' = 0
    /\ pc' = "done"
    /\ UNCHANGED <<fs, todo, visited, skill_dir, text, meta, links, errors, seen_names>>
    /\ UNCHANGED <<pfVars, ilVars>>

Next ==
    \/ RootMissing
    \/ EnterLoop
    \/ LocateDocument
    \/ ParseDocument
    \/ ValidateName
    \/ ValidateLink
    \/ LinksDone
    \/ LoopDone
    \/ Report

Spec == Init /\ [][Next]_vars

----------------------------------------------------------------------------
(* parse_frontmatter called alone, on every text of up to MaxDocLines lines *)

ParseLines ==
    { DELIM,
      <<"-", "-", "-", " ">>,
      <<"k", ":", " ", "\"", "q", "\"">>,
      <<"k", ":", " ", "'", "q", "'">>,
      <<"k", ":", " ", "\"", "'", "q", "'", "\"">>,
      <<"k", ":", " ", "\"", "q">>,
      <<"k", ":", "v", ":", "w">>,
      <<" ", "j", " ", ":", " ", "v", " ">>,
      <<"#", " ", "c", ":", " ", "d">>,
      <<"x">>,
      <<>> }

ParseTexts ==
    { join_lines(ls) : ls \in UNION { [1..n -> ParseLines] : n \in 0..MaxDocLines } }

\* main at rest, for the specifications that call one function alone
MainIdle ==
    /\ fs = [is_dir |-> FALSE, dirs |-> {}, docs |-> <<>>, rmd |-> "absent"]
    /\ pc = "idle"
    /\ todo = <<>>
    /\ visited = <<>>
    /\ skill_dir = <<>>
    /\ text = <<>>
    /\ meta = NoResult
    /\ links = <<>>
    /\ errors = <<>>
    /\ seen_names = EmptyDict
    /\ rc = -1
    /\ out = NoOutput

InitParse ==
    /\ MainIdle
    /\ pf_text \in ParseTexts /\ pf_pc = "call" /\ pf_res = NoResult
    /\ il_text = <<>> /\ il_pc = "idle" /\ il_res = <<>>

\* lines 11-28
ParseCall ==
    /\ pf_pc = "call"
    /\ pf_res' = parse_frontmatter(pf_text)
    /\ pf_pc' = "done"
    /\ UNCHANGED <<pf_text, mainVars, ilVars>>

NextParse == ParseCall

SpecParse == InitParse /\ [][NextParse]_vars

----------------------------------------------------------------------------
(* iter_relative_links called alone, on texts of one or two links *)

LinkTokens ==
    { <<" ">>, <<"\t">>, <<"#">>, <<"a">>, <<"/">>, <<"h">>, <<".", ".">>,
      <<"h", "t", "t", "p", ":", "/", "/">>,
      <<"h", "t", "t", "p", "s", ":", "/", "/">>,
      <<"m", "a", "i", "l", "t", "o", ":">>,
      <<"t", "e", "l", ":">> }

RECURSIVE concat(_)
concat(ss) == IF ss = <<>> THEN <<>> ELSE Head(ss) \o concat(Tail(ss))

\* the raw targets: one to MaxTokens tokens
RawTargets ==
    { concat(ts) : ts \in UNION { [1..n -> LinkTokens] : n \in 1..MaxTokens } }

\* a second link of the same text
SecondRaws == { <<"b">>, <<"#", "f">>, <<"b", " ", "c">> }

markup(raw) == <<"[", "t", "]", "(">> \o raw \o <<")">>

LinkTexts ==
    { markup(r) : r \in RawTargets }
    \cup { markup(r) \o <<" ">> \o markup(r2) : r \in RawTargets, r2 \in SecondRaws }

InitLinks ==
    /\ MainIdle
    /\ pf_text = <<>> /\ pf_pc = "idle" /\ pf_res = NoResult
    /\ il_text \in LinkTexts /\ il_pc = "call" /\ il_res = <<>>

\* lines 31-40: the generator run to its end
IterLinks ==
    /\ il_pc = "call"
    /\ il_res' = iter_relative_links(il_text)
    /\ il_pc' = "done"
    /\ UNCHANGED <<il_text, mainVars, pfVars>>

NextLinks == IterLinks

SpecLinks == InitLinks /\ [][NextLinks]_vars

----------------------------------------------------------------------------
(* Vocabulary of the properties *)

Range(q) == { q[i] : i \in 1..Len(q) }

\* the position of folder d in the order the loop took the folders in
Pos(d) == CHOOSE i \in 1..Len(visited) : visited[i] = d

\* the loop has taken folder d and has left it again
Finished(d) ==
    /\ d \in Range(visited)
    /\ d # skill_dir \/ pc \in {"loop", "report", "done"}

\* the name step of folder d is behind
PastName(d) ==
    /\ d \in Range(visited)
    /\ d # skill_dir \/ pc \in {"links", "loop", "report", "done"}

ErrorsOf(d) == SelectSeq(errors, LAMBDA e : e.doc = skill_md_of(d))

KindsOf(d, kinds) == SelectSeq(ErrorsOf(d), LAMBDA e : e.kind \in kinds)

NamingKinds == {E_NONAME, E_MISMATCH, E_PATTERN, E_DUP}
LinkKinds == {E_ESCAPE, E_MISSING}

\* the name the document of folder d declares, <<>> when it declares none
DeclaredName(d) ==
    IF fs.docs[d].readable /\ parse_frontmatter(fs.docs[d].text).err = ""
    THEN get_name(parse_frontmatter(fs.docs[d].text))
    ELSE <<>>

\* the folders taken before d that declare name n
Earlier(d, n) == { e \in Range(visited) : Pos(e) < Pos(d) /\ DeclaredName(e) = n }

\* the folder taken first among those of the set F
First(F) == CHOOSE e \in F : \A g \in F : Pos(e) <= Pos(g)

\* ^[a-z0-9-]{1,64}$ said of a name that holds no line break
PatternOK(n) ==
    /\ Len(n) \in 1..64
    /\ \A i \in 1..Len(n) :
         n[i] \in {"a", "b", "c", "d", "e", "f", "g", "h", "i", "j", "k", "l", "m",
                   "n", "o", "p", "q", "r", "s", "t", "u", "v", "w", "x", "y", "z",
                   "0", "1", "2", "3", "4", "5", "6", "7", "8", "9", "-"}

\* the first line of a text: what stands before its first line break
FirstLineOf(t) ==
    LET breaks == { i \in 1..Len(t) : t[i] \in {"\n", "\r"} }
    IN  IF breaks = {} THEN t
        ELSE SubSeq(t, 1, (CHOOSE i \in breaks : \A j \in breaks : i <= j) - 1)

\* the text is empty or its first line, trimmed, is not "---"
NoOpening(t) == t = <<>> \/ strip(FirstLineOf(t)) # <<"-", "-", "-">>

----------------------------------------------------------------------------
(* C1 *)

C1_Registry ==
    \A n \in DOMAIN seen_names :
        LET F == { e \in Range(visited) : PastName(e) /\ DeclaredName(e) = n }
        IN  F # {} /\ seen_names[n] = skill_md_of(First(F))

C1_Duplicates ==
    \A d \in Range(visited) :
        (PastName(d) /\ DeclaredName(d) # <<>>) =>
            LET n == DeclaredName(d)
                dups == KindsOf(d, {E_DUP})
            IN  IF Earlier(d, n) = {}
                THEN dups = <<>> /\ n \in DOMAIN seen_names /\ seen_names[n] = skill_md_of(d)
                ELSE dups = <<Err(skill_md_of(d), E_DUP, n, skill_md_of(First(Earlier(d, n))))>>

C1_Keeps ==
    \A n \in DOMAIN seen_names : n \in DOMAIN seen_names' /\ seen_names'[n] = seen_names[n]

\* C1: seen_names maps each name to the document of the folder that declared
\* it first; an entry is never overwritten or removed; every later folder that
\* declares the name gets exactly one duplicate-name error, naming that first
\* document, and the first folder gets none.
C1_FirstSeen == [](C1_Registry /\ C1_Duplicates) /\ [][C1_Keeps]_vars

\* two folders declared one name and the run is over: the second carries the
\* duplicate-name error that names the first
C1_Witness ==
    /\ pc = "done"
    /\ \E d, e \in Range(visited) :
         /\ Pos(e) < Pos(d)
         /\ DeclaredName(d) # <<>>
         /\ DeclaredName(e) = DeclaredName(d)
         /\ \E i \in 1..Len(errors) :
              errors[i] = Err(skill_md_of(d), E_DUP, DeclaredName(d), skill_md_of(e))

----------------------------------------------------------------------------
(* C2 *)

\* folder d is done with, declares its own name, and the name fits the pattern
C2_Case(d) == PastName(d) /\ DeclaredName(d) = d /\ PatternOK(d)

\* C2 as stated: a folder that declares its own name, the name fitting the
\* pattern, gets no naming error at all.
C2_Original ==
    \A d \in Range(visited) : C2_Case(d) => KindsOf(d, NamingKinds) = <<>>

\* C2 as amended: such a folder gets no missing-name, mismatch or pattern error,
\* and gets a duplicate-name error exactly when a folder taken earlier declared
\* the same name (then exactly one); with no such folder it gets no naming error.
C2_Amended ==
    \A d \in Range(visited) :
        C2_Case(d) =>
            /\ KindsOf(d, {E_NONAME, E_MISMATCH, E_PATTERN}) = <<>>
            /\ Len(KindsOf(d, {E_DUP})) = (IF Earlier(d, d) = {} THEN 0 ELSE 1)

\* a folder whose name is as long as the pattern allows declares it and is
\* done with, free of naming errors
C2_Witness ==
    \E d \in Range(visited) :
        /\ C2_Case(d)
        /\ Len(d) = 64
        /\ Finished(d)
        /\ KindsOf(d, NamingKinds) = <<>>

----------------------------------------------------------------------------
(* C3 *)

\* what the name step must append for folder d declaring name n, given the
\* registry it finds
C3_Expected(d, n, seen) ==
    <<Err(skill_md_of(d), E_MISMATCH, n, <<>>)>>
    \o (IF PatternOK(n) THEN <<>> ELSE <<Err(skill_md_of(d), E_PATTERN, n, <<>>)>>)
    \o (IF n \in DOMAIN seen THEN <<Err(skill_md_of(d), E_DUP, n, seen[n])>> ELSE <<>>)

C3_Step ==
    (pc = "name" /\ get_name(meta) # <<>> /\ get_name(meta) # skill_dir) =>
        LET n == get_name(meta)
        IN  /\ errors' = errors \o C3_Expected(skill_dir, n, seen_names)
            /\ n \in DOMAIN seen_names'
            /\ n \notin DOMAIN seen_names => seen_names'[n] = skill_md_of(skill_dir)
            /\ pc' = "links"
            /\ links' = iter_relative_links(text)

C3_Counts ==
    \A d \in Range(visited) :
        (PastName(d) /\ DeclaredName(d) # <<>> /\ DeclaredName(d) # d) =>
            /\ Len(KindsOf(d, {E_MISMATCH})) = 1
            /\ Len(KindsOf(d, {E_PATTERN})) = (IF PatternOK(DeclaredName(d)) THEN 0 ELSE 1)
            /\ Len(KindsOf(d, {E_DUP})) = (IF Earlier(d, DeclaredName(d)) = {} THEN 0 ELSE 1)
            /\ DeclaredName(d) \in DOMAIN seen_names

\* C3: a declared name that differs from the folder name gets exactly one
\* "does not match folder" error, and the pattern check and the registry check
\* (with registration of a new name) still run, each recording its error
\* whatever the others found; the links are validated afterwards.
C3_MismatchNonTerminal == []C3_Counts /\ [][C3_Step]_vars

\* a folder with a mismatching name that also breaks the pattern and is a
\* duplicate, and whose link was still found missing
C3_Witness ==
    \E d \in Range(visited) :
        /\ Finished(d)
        /\ DeclaredName(d) # <<>> /\ DeclaredName(d) # d
        /\ Len(KindsOf(d, {E_MISMATCH})) = 1
        /\ Len(KindsOf(d, {E_DUP})) = 1
        /\ KindsOf(d, LinkKinds) # <<>>
        /\ \E e \in Range(visited) :
             /\ DeclaredName(e) # e
             /\ Len(KindsOf(e, {E_PATTERN})) = 1
             /\ Len(KindsOf(e, {E_MISMATCH})) = 1

----------------------------------------------------------------------------
(* C4 *)

\* the resolved path of a link of folder d
C4_Resolved(d, link) == resolve(fs, joinpath(skills_dir \o <<d>>, link))

\* the resolved path is the resolved folder or lies below it
C4_Contained(d, link) ==
    LET root == resolve(fs, skills_dir \o <<d>>)
        path == C4_Resolved(d, link)
    IN  path = root \/ (Len(path) > Len(root) /\ SubSeq(path, 1, Len(root)) = root)

C4_Expected(d, link) ==
    IF ~C4_Contained(d, link) THEN <<Err(skill_md_of(d), E_ESCAPE, link, <<>>)>>
    ELSE IF C4_Resolved(d, link) \notin existing(fs)
    THEN <<Err(skill_md_of(d), E_MISSING, link, <<>>)>>
    ELSE <<>>

\* one turn of the loop over the links appends what the link earns, and only
\* an exhausted generator ends the loop
C4_Step ==
    /\ (pc = "links" /\ links # <<>>) =>
          /\ errors' = errors \o C4_Expected(skill_dir, Head(links))
          /\ Len(errors') <= Len(errors) + 1
          /\ links' = Tail(links)
          /\ pc' = "links"
    /\ (pc = "links" /\ pc' # "links") => links = <<>>
    /\ (pc = "name") => links' = iter_relative_links(text)

\* a finished folder carries one link error for each of its links that
\* escapes or is missing, and no other link error
C4_Counts ==
    \A d \in Range(visited) :
        (Finished(d) /\ fs.docs[d].readable /\ parse_frontmatter(fs.docs[d].text).err = "") =>
            LET L == iter_relative_links(fs.docs[d].text)
                esc == { i \in 1..Len(L) : ~C4_Contained(d, L[i]) }
                mis == { i \in 1..Len(L) :
                           C4_Contained(d, L[i]) /\ C4_Resolved(d, L[i]) \notin existing(fs) }
            IN  /\ Len(KindsOf(d, {E_ESCAPE})) = Cardinality(esc)
                /\ Len(KindsOf(d, {E_MISSING})) = Cardinality(mis)
                /\ \A i \in esc : \A e \in Range(KindsOf(d, {E_MISSING})) : e.arg # L[i]

\* C4: every extracted link earns at most one error: "link escapes skill dir"
\* alone when its resolved path is neither the resolved folder nor below it,
\* "missing link target" alone when it is contained and does not exist, nothing
\* when it is contained and exists; every extracted link is checked, whatever
\* the links before it earned.
C4_LinkErrors == []C4_Counts /\ [][C4_Step]_vars

\* a finished folder whose first link escaped to a path that does not exist
\* and whose second link was then found missing
C4_Witness ==
    \E d \in Range(visited) :
        /\ Finished(d)
        /\ Len(KindsOf(d, LinkKinds)) = 2
        /\ KindsOf(d, LinkKinds)[1].kind = E_ESCAPE
        /\ C4_Resolved(d, KindsOf(d, LinkKinds)[1].arg) \notin existing(fs)
        /\ KindsOf(d, LinkKinds)[2].kind = E_MISSING

----------------------------------------------------------------------------
(* C5 *)

C5_Step ==
    (pc = "parse" /\ NoOpening(text)) =>
        /\ errors' = Append(errors, Err(skill_md_of(skill_dir), "missing frontmatter start",
                                        <<>>, <<>>))
        /\ seen_names' = seen_names
        /\ pc' = "loop"

C5_OneError ==
    \A d \in Range(visited) :
        (Finished(d) /\ fs.docs[d].readable /\ NoOpening(fs.docs[d].text)) =>
            /\ ErrorsOf(d) = <<Err(skill_md_of(d), "missing frontmatter start", <<>>, <<>>)>>
            /\ \A n \in DOMAIN seen_names : seen_names[n] # skill_md_of(d)

\* C5: a document that is empty or whose first line, trimmed, is not "---"
\* earns its folder the one error "missing frontmatter start"; main runs no
\* name check and no link check for the folder and leaves seen_names alone.
C5_NoOpening == []C5_OneError /\ [][C5_Step]_vars

\* a finished folder whose document lacks the opening delimiter but holds a
\* name entry and a dangling link
C5_Witness ==
    \E d \in Range(visited) :
        /\ Finished(d)
        /\ fs.docs[d].readable
        /\ fs.docs[d].text # <<>>
        /\ NoOpening(fs.docs[d].text)
        /\ iter_relative_links(fs.docs[d].text) # <<>>
        /\ Len(ErrorsOf(d)) = 1

----------------------------------------------------------------------------
(* C8 *)

\* C8: main returns 1 exactly when the error list is not empty and 0 otherwise;
\* without a skills directory no folder is processed and the list is the one
\* error "skills/ directory not found"; a skills directory without folders
\* gives an empty list, the PASS message and 0.
C8_ExitStatus ==
    /\ pc # "done" => rc = -1
    /\ pc = "done" =>
          /\ rc \in {0, 1}
          /\ rc = 1 <=> errors # <<>>
          /\ rc = 0 <=> out = [header |-> "Skill validation passed.", lines |-> <<>>]
          /\ rc = 1 <=> out = [header |-> "Skill validation failed:", lines |-> errors]
    /\ ~fs.is_dir =>
          /\ visited = <<>>
          /\ pc \in {"report", "done"} =>
                errors = <<Err(<<>>, "skills/ directory not found", <<>>, <<>>)>>
          /\ pc = "done" => rc = 1
    /\ (fs.is_dir /\ fs.dirs = {}) => errors = <<>> /\ (pc = "done" => rc = 0)

\* the run without a skills directory has returned 1
C8_Witness == pc = "done" /\ ~fs.is_dir /\ rc = 1 /\ Len(errors) = 1

----------------------------------------------------------------------------
(* C9 *)

\* the code point of a character of a folder name
C9_Code(c) ==
    CASE c = "-" -> 45
      [] c = "B" -> 66
      [] c = "a" -> 97
      [] c = "b" -> 98

\* a sorts before b: at the first position where they differ a has the lower
\* code point, or a ends there and b goes on
C9_Less(a, b) ==
    \E k \in 1..(Len(a) + 1) :
        /\ \A i \in 1..(k - 1) : i <= Len(b) /\ a[i] = b[i]
        /\ \/ k = Len(a) + 1 /\ k <= Len(b)
           \/ k <= Len(a) /\ k <= Len(b) /\ C9_Code(a[k]) < C9_Code(b[k])

\* the steps of one folder, in the order the code takes them
C9_Rank(kind) ==
    CASE kind = E_NODOC -> 1
      [] kind \in {ERR_START, ERR_END} -> 2
      [] kind \in {E_NONAME, E_MISMATCH} -> 3
      [] kind = E_PATTERN -> 4
      [] kind = E_DUP -> 5
      [] kind \in LinkKinds -> 6

\* the folder an error is about
C9_Folder(e) == e.doc[Len(e.doc) - 1]

\* the folders are taken in lexicographic order, none twice, and when the loop
\* is over none is left
C9_Folders ==
    (fs.is_dir /\ pc # "start") =>
        LET all == visited \o todo
        IN  /\ Range(all) = fs.dirs
            /\ Len(all) = Cardinality(fs.dirs)
            /\ \A i, j \in 1..Len(all) : i < j => C9_Less(all[i], all[j])
            /\ pc \in {"report", "done"} => todo = <<>>

\* the error list runs folder by folder and, within a folder, step by step
C9_Ordered ==
    fs.is_dir =>
        \A i, j \in 1..Len(errors) :
            i < j =>
                \/ C9_Less(C9_Folder(errors[i]), C9_Folder(errors[j]))
                \/ /\ errors[i].doc = errors[j].doc
                   /\ \/ C9_Rank(errors[i].kind) < C9_Rank(errors[j].kind)
                      \/ errors[i].kind \in LinkKinds /\ errors[j].kind \in LinkKinds

\* the link errors of a finished folder name its failing links in document
\* order, as often as the document holds them
C9_LinkOrder ==
    \A d \in Range(visited) :
        (Finished(d) /\ fs.docs[d].readable /\ parse_frontmatter(fs.docs[d].text).err = "") =>
            LET le == KindsOf(d, LinkKinds)
                args == [i \in 1..Len(le) |-> le[i].arg]
            IN  args = SelectSeq(iter_relative_links(fs.docs[d].text),
                                 LAMBDA l : l \in Range(args))

\* no exception leaves main
C9_NoAbort == pc # "raised"

\* every SKILL.md that exists can be read
C9_Readable == \A d \in fs.dirs : fs.docs[d].exists => fs.docs[d].readable

\* the list only grows at its end
C9_Appends ==
    /\ Len(errors') >= Len(errors)
    /\ SubSeq(errors', 1, Len(errors)) = errors

\* the most links a document of the file system yields
C9_MostLinks ==
    LET counts == {0} \cup { Len(iter_relative_links(fs.docs[d].text)) : d \in fs.dirs }
    IN  CHOOSE n \in counts : \A m \in counts : m <= n

\* a bound on the steps main has still to take
C9_StepsLeft(p, t, l) ==
    LET perFolder == C9_MostLinks + 4
    IN  CASE p = "start" -> 3 + Cardinality(fs.dirs) * perFolder
          [] p = "loop" -> 2 + Len(t) * perFolder
          [] p = "parse" -> 2 + Len(t) * perFolder + C9_MostLinks + 3
          [] p = "name" -> 2 + Len(t) * perFolder + C9_MostLinks + 2
          [] p = "links" -> 2 + Len(t) * perFolder + Len(l) + 1
          [] p = "report" -> 1
          [] p \in {"done", "raised"} -> 0

\* every step brings the end nearer
C9_Decreases ==
    /\ C9_StepsLeft(pc, todo, links) >= 0
    /\ vars' # vars => C9_StepsLeft(pc', todo', links') < C9_StepsLeft(pc, todo, links)

----------------------------------------------------------------------------
(* C6 *)

\* the lines after the first that are "---" once trimmed
C6_Closers(lines) == { i \in 2..Len(lines) : strip(lines[i]) = <<"-", "-", "-">> }

\* C6: for a text whose first line is the opening delimiter, the result is
\* "missing frontmatter end" exactly when no later line is the delimiter by the
\* rule of the opening one (equal to "---" once trimmed), and on success the
\* entries are those of the lines strictly between the opening line and the
\* first such line.
C6_ClosingLikeOpening ==
    (pf_pc = "done" /\ ~NoOpening(pf_text)) =>
        LET lines == splitlines(pf_text)
            closers == C6_Closers(lines)
            first == CHOOSE i \in closers : \A j \in closers : i <= j
        IN  /\ pf_res.err = "missing frontmatter end" <=> closers = {}
            /\ closers # {} =>
                  /\ ~pf_res.none
                  /\ pf_res.data = parse_lines(SubSeq(lines, 2, first - 1), EmptyDict)

----------------------------------------------------------------------------
(* C7 *)

\* one layer of surrounding matching quote characters removed, if present
C7_Unquote(v) ==
    IF Len(v) >= 2 /\ v[1] \in {"\"", "'"} /\ v[Len(v)] = v[1]
    THEN SubSeq(v, 2, Len(v) - 1)
    ELSE v

\* line i of the block is an entry: not blank, no comment, and holds a ":"
C7_IsEntry(line) ==
    /\ strip(line) # <<>>
    /\ lstrip(line)[1] # "#"
    /\ \E c \in 1..Len(line) : line[c] = ":"

C7_Colon(line) == CHOOSE c \in 1..Len(line) : line[c] = ":" /\ \A b \in 1..(c - 1) : line[b] # ":"

C7_Key(line) == strip(SubSeq(line, 1, C7_Colon(line) - 1))

\* C7: the value parsed for an entry `key: value` is the text right of the
\* first ":", trimmed, with one layer of surrounding matching quotes removed if
\* present; quote characters beyond that one matching outer pair are kept.
C7_OneQuoteLayer ==
    (pf_pc = "done" /\ pf_res.err = "") =>
        LET lines == splitlines(pf_text)
            end == index_delim(lines, 2)
            entries == { i \in 2..(end - 1) : C7_IsEntry(lines[i]) }
        IN  \A i \in entries :
                (\A j \in entries : j > i => C7_Key(lines[j]) # C7_Key(lines[i])) =>
                    /\ C7_Key(lines[i]) \in DOMAIN pf_res.data
                    /\ pf_res.data[C7_Key(lines[i])] =
                          C7_Unquote(strip(SubSeq(lines[i], C7_Colon(lines[i]) + 1,
                                                  Len(lines[i]))))

----------------------------------------------------------------------------
(* C10 *)

C10_Blank == {" ", "\t", "\n", "\r"}

C10_Prefixes ==
    { <<"#">>,
      <<"h", "t", "t", "p", ":", "/", "/">>,
      <<"h", "t", "t", "p", "s", ":", "/", "/">>,
      <<"m", "a", "i", "l", "t", "o", ":">>,
      <<"t", "e", "l", ":">>,
      <<"/", "/">> }

C10_Excluded(r) ==
    \E p \in C10_Prefixes : Len(r) >= Len(p) /\ \A i \in 1..Len(p) : r[i] = p[i]

\* t is the trimmed raw match r cut before its first whitespace or "#"
C10_CutOf(t, r) ==
    /\ Len(t) <= Len(r)
    /\ \A i \in 1..Len(t) : t[i] = r[i] /\ t[i] \notin C10_Blank \cup {"#"}
    /\ Len(t) < Len(r) => r[Len(t) + 1] \in C10_Blank \cup {"#"}

\* the trimmed raw match r yields a target
C10_Kept(r) == r # <<>> /\ ~C10_Excluded(r) /\ r[1] \notin C10_Blank \cup {"#"}

\* C10: of the raw matches of a text, in order, exactly those yield a target
\* that, trimmed, are not empty, start with none of "#", "http://", "https://",
\* "mailto:", "tel:", "//", and are not empty once cut at the first whitespace
\* and then at the first "#"; the target is that cut, so it is not empty and
\* holds no whitespace and no "#".
C10_Filter ==
    il_pc = "done" =>
        LET raws == findall(il_text, 1)
            trimmed == [i \in 1..Len(raws) |-> strip(raws[i])]
            kept == { i \in 1..Len(raws) : C10_Kept(trimmed[i]) }
            nth(i) == Cardinality({ j \in kept : j <= i })
        IN  /\ Len(il_res) = Cardinality(kept)
            /\ \A i \in kept : C10_CutOf(il_res[nth(i)], trimmed[i])
            /\ \A k \in 1..Len(il_res) :
                 /\ il_res[k] # <<>>
                 /\ \A c \in 1..Len(il_res[k]) : il_res[k][c] \notin C10_Blank \cup {"#"}

\* a text of two links: the first, an https:// address behind a blank, yields
\* nothing; the second is cut at its blank
C10_Witness ==
    /\ il_pc = "done"
    /\ Len(findall(il_text, 1)) = 2
    /\ findall(il_text, 1)[1] = <<" ", "h", "t", "t", "p", "s", ":", "/", "/">>
    /\ findall(il_text, 1)[2] = <<"b", " ", "c">>
    /\ il_res = << <<"b">> >>

====
